---- MODULE Spec2Model ----
(***************************************************************************)
(* Model of the FFIS email handlers of grants-ingest.                      *)
(*                                                                         *)
(* Pipeline A (cmd/PrepareFFISEmail): handleS3EventWithConfig fans a batch *)
(* of S3 notifications out to one goroutine per record, each of which      *)
(* fetches the source object, parses it as a mail message, validates the   *)
(* sender, derives a destination key from the sent date and uploads the    *)
(* email; the per-record errors are accumulated in a multierror.Group.     *)
(*                                                                         *)
(* Pipeline B (cmd/EnqueueFFISDownload): only its test is part of the      *)
(* sources; its handler is modelled from the specification.                *)
(***************************************************************************)
EXTENDS Integers, Sequences, FiniteSets, TLC

VARIABLES
    records,      \* s3Event.Records: the source object key of each record
    ctxDone,      \* the invocation context has been canceled
    mainpc,       \* position of handleS3EventWithConfig: "loop", "wait", "check", "returned"
    next,         \* index of the next record the dispatch loop hands to wg.Go
    pc,           \* position of each record task
    resp,         \* resp.Body of each task: a reader [data, pos]
    bodyOpen,     \* the tasks whose resp.Body has been obtained and not closed
    b,            \* the bytes io.ReadAll returned to each task
    s3ObjectKey,  \* the destination key each task derived
    address,      \* the sender address each task parsed
    err,          \* the error each task returns (Nil when none)
    failedAt,     \* the step at which each task failed ("" when none)
    errs,         \* multierror.Group's accumulated errors
    result,       \* what handleS3EventWithConfig returned (Pending before)
    dest,         \* the destination bucket: key -> stored object
    putIn,        \* the PutObjectInput of each record whose PutObject took effect
    getCalls,     \* number of GetObject calls each task issued
    putCalls,     \* number of PutObject calls each task issued
    putAtCancel,  \* the records whose PutObject had completed when the context was canceled
    inFlight,     \* the records whose task was between wg.Go and its return at that moment
    cancelAt,     \* the value of next when the context was canceled (0: not canceled)
    metrics,      \* sendMetric counters: [failed, moved]
    bRecords,     \* pipeline B: the source object key of each record
    bpc,          \* pipeline B: position of each record task
    bUrl,         \* pipeline B: the URL each task extracted
    bErr,         \* pipeline B: the error of each record task
    bErrs,        \* pipeline B: the accumulated errors
    bResult,      \* pipeline B: what handleS3Event returned
    queue,        \* pipeline B: the bodies of the messages sent to the queue
    bSent         \* pipeline B: the message bodies each record sent

varsA == <<records, ctxDone, mainpc, next, pc, resp, bodyOpen, b, s3ObjectKey, address, err,
           failedAt, errs, result, dest, putIn, getCalls, putCalls,
           putAtCancel, inFlight, cancelAt, metrics>>
varsB == <<bRecords, bpc, bUrl, bErr, bErrs, bResult, queue, bSent>>
vars == <<varsA, varsB>>

\* ---------------------------------------------------------------- bounds
MaxRecords == 2

\* ---------------------------------------------------------------- errors
\* An error value: msg is the message log.Errorf put in front ("" when the
\* error is returned as it came), kind is the identity of the wrapped cause.
Error(kind) == [msg |-> "", kind |-> kind]
Nil == Error("nil")
Canceled == Error("context.Canceled")
NoSuchKey == Error("NoSuchKey")
ServiceError == Error("ServiceError")

\* log.Errorf(logger, msg, err): logs and returns msg wrapping err.
Errorf(msg, e) == [msg |-> msg, kind |-> e.kind]

\* errors.Is(e, context.Canceled)
IsCanceled(e) == e.kind = "context.Canceled"

\* ---------------------------------------------------------------- configuration
\* env.ValidFFISEmail, as a sequence of characters.
ValidFFISEmail == <<"f", "@", "o">>
\* env.SourceDataBucket
SourceDataBucket == "test-source-data-bucket"

\* ---------------------------------------------------------------- mail messages
\* Raw bytes of a message: a sequence of lines.
Hdr(name, val) == [t |-> "hdr", name |-> name, val |-> val]
Sep == [t |-> "sep", name |-> "", val |-> [kind |-> "none"]]
Text(s) == [t |-> "text", name |-> s, val |-> [kind |-> "none"]]
Junk(s) == [t |-> "junk", name |-> s, val |-> [kind |-> "none"]]

\* Header values.
Addr(name, a) == [kind |-> "addr", name |-> name, addr |-> a]
AddrList(a1, a2) == [kind |-> "list", first |-> a1, second |-> a2]
Garbage == [kind |-> "garbage"]
Missing == [kind |-> "empty"]
Date(y, m, d, h, off) == [kind |-> "date", y |-> y, m |-> m, d |-> d, h |-> h, off |-> off]

FFIS == <<"f", "@", "o">>
FFISInside == <<"x", "f", "@", "o", "z">>
Stranger == <<"f", "@", "x", "o">>

\* The source bucket: object key -> bytes.
SourceBucket ==
    [good |-> <<Hdr("From", Addr("FFIS", FFIS)), Hdr("Date", Date(2023, 4, 24, 17, -5)),
                Hdr("Subject", Garbage), Sep, Text("This is a test")>>,
     inside |-> <<Hdr("Date", Date(2023, 12, 4, 9, 0)), Hdr("From", Addr("", FFISInside)),
                  Sep, Text("digest")>>,
     sameday |-> <<Hdr("From", Addr("FFIS", FFIS)), Hdr("Date", Date(2023, 4, 24, 8, -5)),
                   Sep, Text("another digest")>>,
     stranger |-> <<Hdr("From", Addr("FFIS", Stranger)), Hdr("Date", Date(2023, 4, 24, 17, -5)),
                    Sep, Text("This is a test")>>,
     baddate |-> <<Hdr("From", Addr("FFIS", FFIS)), Hdr("Date", Garbage), Sep>>,
     nosep |-> <<Hdr("From", Addr("FFIS", FFIS)), Hdr("Date", Date(2023, 4, 24, 17, -5))>>,
     junk |-> <<Hdr("From", Addr("FFIS", FFIS)), Junk("no colon"),
                Hdr("Date", Date(2023, 4, 24, 17, -5)), Sep, Text("This is a test")>>,
     nofrom |-> <<Hdr("Date", Date(2023, 4, 24, 17, -5)), Sep, Text("This is a test")>>,
     badfrom |-> <<Hdr("From", Garbage), Hdr("Date", Date(2023, 4, 24, 17, -5)), Sep>>,
     twofrom |-> <<Hdr("From", AddrList(FFIS, Stranger)),
                   Hdr("Date", Date(2023, 4, 24, 17, -5)), Sep>>,
     nodate |-> <<Hdr("From", Addr("FFIS", FFIS)), Sep, Text("This is a test")>>,
     strangerbaddate |-> <<Hdr("From", Addr("FFIS", Stranger)), Hdr("Date", Garbage), Sep,
                           Text("This is a test")>>,
     latenight |-> <<Hdr("From", Addr("FFIS", FFIS)), Hdr("Date", Date(2023, 4, 24, 23, -5)),
                     Sep, Text("This is a test")>>,
     repeated |-> <<Hdr("from", Addr("FFIS", FFIS)), Hdr("FROM", Addr("FFIS", Stranger)),
                    Hdr("DATE", Date(2023, 4, 24, 17, -5)), Hdr("Date", Date(1987, 12, 31, 9, 0)),
                    Sep, Text("This is a test")>>,
     strangerfirst |-> <<Hdr("FROM", Addr("FFIS", Stranger)), Hdr("From", Addr("FFIS", FFIS)),
                         Hdr("date", Date(1987, 12, 31, 9, 0)), Hdr("Date", Garbage), Sep>>]

\* Keys a record of the batch may name; "absent" is not in the source bucket.
SourceKeys == DOMAIN SourceBucket \cup {"absent"}

\* textproto canonical form of a header name (case-insensitive lookup).
CanonicalMIMEHeaderKey(name) ==
    CASE name \in {"From", "FROM", "from"} -> "From"
      [] name \in {"Date", "DATE", "date"} -> "Date"
      [] OTHER -> name

\* mail.ReadMessage: the header lines up to the first blank line, then the body.
\* Fails when the bytes end before the blank line or a header line is malformed.
SepIndexes(data) == {i \in 1..Len(data) : data[i].t = "sep"}
FirstSep(data) == CHOOSE i \in SepIndexes(data) : \A j \in SepIndexes(data) : i <= j
ReadMessage(data) ==
    IF SepIndexes(data) = {} THEN [err |-> Error("mail.ReadMessage"), Header |-> <<>>, Body |-> <<>>]
    ELSE LET s == FirstSep(data) IN
         IF \E i \in 1..(s - 1) : data[i].t # "hdr"
         THEN [err |-> Error("mail.ReadMessage"), Header |-> <<>>, Body |-> <<>>]
         ELSE [err |-> Nil, Header |-> SubSeq(data, 1, s - 1),
               Body |-> SubSeq(data, s + 1, Len(data))]

\* Faulty variant: the value of the last occurrence of the key.
HeaderGetLast(h, name) ==
    LET hits == {i \in 1..Len(h) : CanonicalMIMEHeaderKey(h[i].name) = name} IN
    IF hits = {} THEN Missing
    ELSE h[CHOOSE i \in hits : \A j \in hits : i >= j].val

\* mail.Header.Get: the first value of the canonical key, "" when there is none.
HeaderGet(h, name) ==
    LET hits == {i \in 1..Len(h) : CanonicalMIMEHeaderKey(h[i].name) = name} IN
    IF hits = {} THEN Missing
    ELSE h[CHOOSE i \in hits : \A j \in hits : i <= j].val

\* mail.ParseAddress: a single address, or an error.
ParseAddress(v) ==
    IF v.kind = "addr" THEN [err |-> Nil, Address |-> v.addr]
    ELSE [err |-> Error("mail.ParseAddress"), Address |-> <<>>]

\* A time.Time: an instant and a zone. The instant is kept as y, m, d, a day of
\* the calendar, and utc, the hours in UTC counted from that day's midnight;
\* off is the offset of the zone in hours.
Time(v) == [y |-> v.y, m |-> v.m, d |-> v.d, utc |-> v.h - v.off, off |-> v.off]
ZeroTime == [y |-> 0, m |-> 0, d |-> 0, utc |-> 0, off |-> 0]

\* Faulty variant: a Date that does not parse yields the zero time and no error.
ParseDateLenient(v) ==
    IF v.kind = "date" THEN [err |-> Nil, t |-> Time(v)]
    ELSE [err |-> Nil, t |-> ZeroTime]

\* mail.ParseDate: the time in the zone of the header's own offset, or an error.
ParseDate(v) ==
    IF v.kind = "date" THEN [err |-> Nil, t |-> Time(v)]
    ELSE [err |-> Error("mail.ParseDate"), t |-> ZeroTime]

\* time.Time.Year / Month / Day: the calendar date in the time's own zone.
Year(t) == t.y
Month(t) == t.m
\* Faulty variant: the day of the instant in UTC.
DayInUTC(t) == t.d + (t.utc \div 24)

Day(t) == t.d + ((t.utc + t.off) \div 24)

Digit == <<"0", "1", "2", "3", "4", "5", "6", "7", "8", "9">>

\* Faulty variant: %02d, zero-padded to two digits.
FormatD02(n) ==
    IF n < 10 THEN "0" \o Digit[n + 1]
    ELSE IF n < 100 THEN Digit[(n \div 10) + 1] \o Digit[(n % 10) + 1]
    ELSE Digit[(n \div 1000) + 1] \o Digit[((n \div 100) % 10) + 1]
           \o Digit[((n \div 10) % 10) + 1] \o Digit[(n % 10) + 1]

\* fmt's %d: plain decimal, no padding.
RECURSIVE FormatD(_)
FormatD(n) == IF n < 10 THEN Digit[n + 1] ELSE FormatD(n \div 10) \o Digit[(n % 10) + 1]

\* strings.Contains
Contains(s, substr) ==
    \E i \in 1..(Len(s) - Len(substr) + 1) : SubSeq(s, i, i + Len(substr) - 1) = substr

\* ---------------------------------------------------------------- pipeline A, pure steps
\* An io.Reader over data, pos elements of which have been read.
NewReader(data) == [data |-> data, pos |-> 0]
NoReader == NewReader(<<>>)

\* io.ReadAll: what remains of the reader; the reader is left at its end.
ReadAll(r) == [bytes |-> SubSeq(r.data, r.pos + 1, Len(r.data)),
               r |-> [r EXCEPT !.pos = Len(r.data)]]

\* processHeader: the sender address and the destination key, or the first error.
processHeader(h) ==
    LET mailFrom == ParseAddress(HeaderGet(h, "From"))
        mailDateTime == ParseDate(HeaderGet(h, "Date"))
    IN  IF mailFrom.err # Nil THEN [address |-> <<>>, key |-> "", err |-> mailFrom.err]
        ELSE IF mailDateTime.err # Nil THEN [address |-> <<>>, key |-> "", err |-> mailDateTime.err]
        ELSE [address |-> mailFrom.Address,
              key |-> "sources/" \o FormatD(Year(mailDateTime.t)) \o "/"
                        \o FormatD(Month(mailDateTime.t)) \o "/"
                        \o FormatD(Day(mailDateTime.t)) \o "/ffis/raw.eml",
              err |-> Nil]

\* Faulty variant: the sender is not checked before the upload.
ValidSenderUnchecked(addr) == TRUE

\* Faulty variant: the sender must equal the configured address.
ValidSenderExact(addr) == addr = ValidFFISEmail

\* The sender check of processEmail.
ValidSender(addr) == Contains(addr, ValidFFISEmail)

\* Faulty variant: the sender is checked as soon as From has parsed, the Date
\* header is parsed after it.
processEmailParseSenderFirst(bytes) ==
    LET email == ReadMessage(bytes)
        mailFrom == ParseAddress(HeaderGet(email.Header, "From"))
        hd == processHeader(email.Header)
    IN  IF email.err # Nil
        THEN [err |-> Errorf("Error parsing email data from S3", email.err),
              at |-> "parse", address |-> <<>>, key |-> ""]
        ELSE IF mailFrom.err # Nil
        THEN [err |-> Errorf("Error extracting data from email header", mailFrom.err),
              at |-> "header", address |-> <<>>, key |-> ""]
        ELSE IF ~ValidSender(mailFrom.Address)
        THEN [err |-> Errorf("Origin email address does not match FFIS address",
                             Error("Invalid email address")),
              at |-> "validate", address |-> mailFrom.Address, key |-> ""]
        ELSE IF hd.err # Nil
        THEN [err |-> Errorf("Error extracting data from email header", hd.err),
              at |-> "header", address |-> <<>>, key |-> ""]
        ELSE [err |-> Nil, at |-> "", address |-> hd.address, key |-> hd.key]

\* processEmail between io.ReadAll and UploadS3Object: parse the message, extract
\* the header data, check the sender. at names the step that failed.
processEmailParse(bytes) ==
    LET email == ReadMessage(bytes)
        hd == processHeader(email.Header)
    IN  IF email.err # Nil
        THEN [err |-> Errorf("Error parsing email data from S3", email.err),
              at |-> "parse", address |-> <<>>, key |-> ""]
        ELSE IF hd.err # Nil
        THEN [err |-> Errorf("Error extracting data from email header", hd.err),
              at |-> "header", address |-> <<>>, key |-> ""]
        ELSE IF ~ValidSender(hd.address)
        THEN [err |-> Errorf("Origin email address does not match FFIS address",
                             Error("Invalid email address")),
              at |-> "validate", address |-> hd.address, key |-> ""]
        ELSE [err |-> Nil, at |-> "", address |-> hd.address, key |-> hd.key]

\* processEmailParse tabulated over the byte sequences a task can have read.
Messages == {SourceBucket[k] : k \in DOMAIN SourceBucket}
processEmailParseOf == [bytes \in Messages |-> processEmailParse(bytes)]

\* Variant: the bytes io.ReadAll returned are uploaded, in a reader of their own.
UploadArgBytes(r, bytes) == NewReader(bytes)

\* The last argument of processEmail's call of UploadS3Object: r, the reader that
\* io.ReadAll has read to its end (bytes, what ReadAll returned, is not passed).
UploadArg(r, bytes) == r

\* Faulty variant: the input asks for no server-side encryption.
UploadS3ObjectPlain(bucket, key, body) ==
    [Bucket |-> bucket, Key |-> key, Body |-> body, ServerSideEncryption |-> ""]

\* UploadS3Object: the PutObjectInput it builds.
UploadS3Object(bucket, key, body) ==
    [Bucket |-> bucket, Key |-> key, Body |-> body, ServerSideEncryption |-> "AES256"]
NoPut == UploadS3Object("", "", NoReader)

\* UploadS3Object returns the error of PutObject as it is.
UploadS3ObjectErr(e) == e

\* The object a PutObject stores: what it reads from the input's Body.
StoredObject(in) ==
    [Body |-> ReadAll(in.Body).bytes, ServerSideEncryption |-> in.ServerSideEncryption]

\* ---------------------------------------------------------------- pipeline A, fan-out
Recs == 1..Len(records)

\* Faulty variant: the group's context is canceled by the first task that fails
\* (errgroup.WithContext in place of multierror.Group).
TaskCtxCancelOnError(done) == done \/ Len(errs) > 0

\* Faulty variant: the calls are given context.Background() instead of ctx.
TaskCtxBackground(done) == FALSE

\* The context of a record task: tracer.StartSpanFromContext derives it from the
\* invocation's context, so it is done exactly when that one is.
TaskCtx(done) == done

\* Faulty variant: the group keeps the last error instead of appending.
GroupAppendOverwrite(es, e) == <<e>>

\* Faulty variant: the group keeps the first error to arrive and drops the rest.
GroupAppendFirstOnly(es, e) == IF Len(es) = 0 THEN <<e>> ELSE es

\* Faulty variant: the error is appended once by the task and once by the group.
GroupAppendTwice(es, e) == Append(Append(es, e), e)

\* multierror.Group.Go, on a task that returned a non-nil error: append under the mutex.
GroupAppend(es, e) == Append(es, e)

\* Faulty variant: a single accumulated error is taken for none.
ErrorOrNilOffByOne(es) ==
    IF Len(es) <= 1 THEN [state |-> "nil", Errors |-> <<>>] ELSE [state |-> "error", Errors |-> es]

\* (*multierror.Error).ErrorOrNil
NilResult == [state |-> "nil", Errors |-> <<>>]
ErrorOrNil(es) == IF Len(es) = 0 THEN NilResult ELSE [state |-> "error", Errors |-> es]

\* Faulty variant: Wait returns without waiting for the tasks.
WaitReadyNoWait == TRUE

\* wg.Wait returns once every task has called Done.
WaitReady == \A i \in Recs : pc[i] = "done"

\* Faulty variant: the metric event is lost.
sendMetricDropped(m, name) == m

\* sendMetric(name, 1): one event of the counter.
sendMetric(m, name) == [m EXCEPT ![name] = @ + 1]

\* The keys the records of a batch of several are drawn from: two emails sent the
\* same day, one from a stranger, one object that does not exist.
BatchKeys == {"good", "sameday", "stranger", "absent"}

\* The batches an invocation is given: any single record, and every batch of up to
\* n records over BatchKeys.
BatchesUpTo(n) == [1..1 -> SourceKeys] \cup UNION {[1..k -> BatchKeys] : k \in 0..n}

InitB0 ==
    /\ bRecords = <<>>
    /\ bpc = <<>>
    /\ bUrl = <<>>
    /\ bErr = <<>>
    /\ bErrs = <<>>
    /\ bResult = [state |-> "pending", Errors |-> <<>>]
    /\ queue = <<>>
    /\ bSent = <<>>

InitAOver(batches) ==
    /\ records \in batches
    /\ ctxDone = FALSE
    /\ mainpc = IF Len(records) = 0 THEN "wait" ELSE "loop"
    /\ next = 1
    /\ pc = [i \in Recs |-> "idle"]
    /\ resp = [i \in Recs |-> NoReader]
    /\ bodyOpen = {}
    /\ b = [i \in Recs |-> <<>>]
    /\ s3ObjectKey = [i \in Recs |-> ""]
    /\ address = [i \in Recs |-> <<>>]
    /\ err = [i \in Recs |-> Nil]
    /\ failedAt = [i \in Recs |-> ""]
    /\ errs = <<>>
    /\ result = [state |-> "pending", Errors |-> <<>>]
    /\ dest = [k \in {} |-> NoPut]
    /\ putIn = [i \in Recs |-> NoPut]
    /\ getCalls = [i \in Recs |-> 0]
    /\ putCalls = [i \in Recs |-> 0]
    /\ putAtCancel = {}
    /\ inFlight = {}
    /\ cancelAt = 0
    /\ metrics = [failed |-> 0, moved |-> 0]

InitA == InitAOver(BatchesUpTo(MaxRecords))

Init == InitA /\ InitB0

\* The caller cancels the invocation's context.
\* Faulty variant: the retrieval error is wrapped in a message of the handler.
GetObjectErrorWrapped(e) == Errorf("Error getting source S3 object", e)

\* The task returns the error of s3svc.GetObject as it is.
GetObjectError(e) == e

\* Faulty variant: the failure counter is emitted for every record.
FailedMetricAlways(e) == TRUE

\* The deferred function of the task emits "email.failed" when err != nil.
FailedMetricDue(e) == e # Nil

\* Faulty variant: a key that exists is not overwritten, a second object is kept.
StoreCopy(d, in) ==
    IF in.Key \in DOMAIN d
    THEN (in.Key \o "-copy" :> StoredObject(in)) @@ d
    ELSE (in.Key :> StoredObject(in)) @@ d

\* The destination bucket after a successful PutObject: the object of the key
\* is created or replaced.
Store(d, in) == (in.Key :> StoredObject(in)) @@ d

\* Faulty variant: the upload error is logged and dropped.
UploadFailureSwallowed(e) == Nil

\* processEmail's error for a failed UploadS3Object.
UploadFailure(e) == Errorf("Error uploading S3 object to Grants source data bucket", e)

Cancel ==
    /\ ~ctxDone
    /\ mainpc # "returned"
    /\ ctxDone' = TRUE
    /\ putAtCancel' = {i \in Recs : putIn[i] # NoPut}
    /\ inFlight' = {i \in Recs : pc[i] \in {"get", "read", "put"}}
    /\ cancelAt' = next
    /\ UNCHANGED <<records, mainpc, next, pc, resp, b, s3ObjectKey, address, err, failedAt,
                   errs, result, dest, putIn, getCalls, putCalls, metrics>>
    /\ UNCHANGED <<bodyOpen, varsB>>

\* The dispatch loop: wg.Go starts the task of the next record.
Go ==
    /\ mainpc = "loop"
    /\ next <= Len(records)
    /\ pc' = [pc EXCEPT ![next] = "get"]
    /\ next' = next + 1
    /\ mainpc' = IF next + 1 > Len(records) THEN "wait" ELSE "loop"
    /\ UNCHANGED <<records, ctxDone, resp, b, s3ObjectKey, address, err, failedAt,
                   errs, result, dest, putIn, getCalls, putCalls, putAtCancel, inFlight, cancelAt,
                   metrics>>
    /\ UNCHANGED <<bodyOpen, varsB>>

\* A task fails at step at with error e and goes on to return it.
Fail(i, at, e) ==
    /\ err' = [err EXCEPT ![i] = e]
    /\ failedAt' = [failedAt EXCEPT ![i] = at]
    /\ pc' = [pc EXCEPT ![i] = "ret"]

\* s3svc.GetObject(ctx, ...) of record i.
GetObject(i) ==
    /\ pc[i] = "get"
    /\ getCalls' = [getCalls EXCEPT ![i] = @ + 1]
    /\ \/ /\ TaskCtx(ctxDone)
          /\ Fail(i, "get", GetObjectError(Canceled))
          /\ UNCHANGED <<resp, bodyOpen>>
       \/ /\ ~TaskCtx(ctxDone)
          /\ records[i] \notin DOMAIN SourceBucket
          /\ Fail(i, "get", GetObjectError(NoSuchKey))
          /\ UNCHANGED <<resp, bodyOpen>>
       \/ /\ ~TaskCtx(ctxDone)
          /\ records[i] \in DOMAIN SourceBucket
          /\ \/ /\ resp' = [resp EXCEPT ![i] = NewReader(SourceBucket[records[i]])]
                /\ bodyOpen' = bodyOpen \cup {i}
                /\ pc' = [pc EXCEPT ![i] = "read"]
                /\ UNCHANGED <<err, failedAt>>
             \/ /\ Fail(i, "get", GetObjectError(ServiceError))
                /\ UNCHANGED <<resp, bodyOpen>>
    /\ UNCHANGED <<records, ctxDone, mainpc, next, b, s3ObjectKey, address, errs, result,
                   dest, putIn, putCalls, putAtCancel, inFlight, cancelAt, metrics>>
    /\ UNCHANGED varsB

\* processEmail of record i up to the upload: io.ReadAll(r), then the pure steps.
\* A read under a canceled context fails unless the body had already arrived.
ReadAndParse(i) ==
    /\ pc[i] = "read"
    /\ \/ /\ TaskCtx(ctxDone)
          /\ Fail(i, "read", Canceled)
          /\ UNCHANGED <<resp, b, s3ObjectKey, address>>
       \/ \E rd \in {ReadAll(resp[i])} : \E p \in {processEmailParseOf[rd.bytes]} :
              /\ resp' = [resp EXCEPT ![i] = rd.r]
              /\ b' = [b EXCEPT ![i] = rd.bytes]
              /\ address' = [address EXCEPT ![i] = p.address]
              /\ s3ObjectKey' = [s3ObjectKey EXCEPT ![i] = p.key]
              /\ IF p.err # Nil
                 THEN Fail(i, p.at, p.err)
                 ELSE /\ pc' = [pc EXCEPT ![i] = "put"]
                      /\ UNCHANGED <<err, failedAt>>
    /\ UNCHANGED <<records, ctxDone, mainpc, next, errs, result, dest, putIn, getCalls,
                   putCalls, putAtCancel, inFlight, cancelAt, metrics>>
    /\ UNCHANGED <<bodyOpen, varsB>>

\* UploadS3Object of record i: one PutObject; on success "email.moved" is counted.
PutObject(i) ==
    /\ pc[i] = "put"
    /\ putCalls' = [putCalls EXCEPT ![i] = @ + 1]
    /\ LET in == UploadS3Object(SourceDataBucket, s3ObjectKey[i], UploadArg(resp[i], b[i]))
       IN  \/ /\ TaskCtx(ctxDone)
              /\ Fail(i, "put", UploadFailure(UploadS3ObjectErr(Canceled)))
              /\ UNCHANGED <<dest, putIn, metrics>>
           \/ /\ ~TaskCtx(ctxDone)
              /\ \/ /\ dest' = Store(dest, in)
                    /\ putIn' = [putIn EXCEPT ![i] = in]
                    /\ metrics' = sendMetric(metrics, "moved")
                    /\ pc' = [pc EXCEPT ![i] = "ret"]
                    /\ UNCHANGED <<err, failedAt>>
                 \/ /\ Fail(i, "put", UploadFailure(UploadS3ObjectErr(ServiceError)))
                    /\ UNCHANGED <<dest, putIn, metrics>>
    /\ UNCHANGED <<records, ctxDone, mainpc, next, resp, b, s3ObjectKey, address, errs,
                   result, getCalls, putAtCancel, inFlight, cancelAt>>
    /\ UNCHANGED <<bodyOpen, varsB>>

\* The task of record i returns: the deferred sendMetric("email.failed") when it
\* returns an error, which the group then appends; wg.Done.
Return(i) ==
    /\ pc[i] = "ret"
    /\ pc' = [pc EXCEPT ![i] = "done"]
    /\ metrics' = IF FailedMetricDue(err[i]) THEN sendMetric(metrics, "failed") ELSE metrics
    /\ errs' = IF err[i] # Nil THEN GroupAppend(errs, err[i]) ELSE errs
    /\ UNCHANGED <<records, ctxDone, mainpc, next, resp, b, s3ObjectKey, address, err,
                   failedAt, result, dest, putIn, getCalls, putCalls, putAtCancel, inFlight,
                   cancelAt>>
    /\ UNCHANGED <<bodyOpen, varsB>>

\* errs := wg.Wait()
Wait ==
    /\ mainpc = "wait"
    /\ WaitReady
    /\ mainpc' = "check"
    /\ UNCHANGED <<records, ctxDone, next, pc, resp, b, s3ObjectKey, address, err, failedAt,
                   errs, result, dest, putIn, getCalls, putCalls, putAtCancel, inFlight,
                   cancelAt, metrics>>
    /\ UNCHANGED <<bodyOpen, varsB>>

\* handleS3EventWithConfig returns errs.ErrorOrNil().
Finish ==
    /\ mainpc = "check"
    /\ result' = ErrorOrNil(errs)
    /\ mainpc' = "returned"
    /\ UNCHANGED <<records, ctxDone, next, pc, resp, b, s3ObjectKey, address, err, failedAt,
                   errs, dest, putIn, getCalls, putCalls, putAtCancel, inFlight, cancelAt,
                   metrics>>
    /\ UNCHANGED <<bodyOpen, varsB>>

TaskStep(i) == GetObject(i) \/ ReadAndParse(i) \/ PutObject(i) \/ Return(i)

Next ==
    \/ Cancel
    \/ Go
    \/ \E i \in Recs : GetObject(i)
    \/ \E i \in Recs : ReadAndParse(i)
    \/ \E i \in Recs : PutObject(i)
    \/ \E i \in Recs : Return(i)
    \/ Wait
    \/ Finish

Spec == Init /\ [][Next]_vars

\* Fair scheduling: the dispatch loop, every started task and the wait keep
\* running; the caller need never cancel.
TaskStepOf(i) == i \in Recs /\ TaskStep(i)
FairSpec ==
    /\ Spec
    /\ WF_vars(Go)
    /\ \A i \in 1..MaxRecords : WF_vars(TaskStepOf(i))
    /\ WF_vars(Wait)
    /\ WF_vars(Finish)

\* ---------------------------------------------------------------- pipeline B
\* The URL of the good.eml fixture, a second matching URL, and one the pattern
\* does not match.
FileURL == "https://mcusercontent.com/123456/files/file-01.xlsx"
OtherFileURL == "https://mcusercontent.com/123456/files/file-02.xlsx"
ForeignURL == "https://example.com/files/file-01.xlsx"

\* The emails in the source bucket: the plaintext part as lines (plain is FALSE
\* when the message has none) and the lines of the HTML part.
Email(plain, text, html) == [plain |-> plain, text |-> text, html |-> html]
Fixtures ==
    [good |-> Email(TRUE, <<"hello", FileURL, "bye">>, <<FileURL>>),
     mixed |-> Email(TRUE, <<ForeignURL, OtherFileURL>>, <<>>),
     missing |-> Email(TRUE, <<"hello", ForeignURL>>, <<FileURL>>),
     multiple |-> Email(TRUE, <<FileURL, "hello", OtherFileURL>>, <<>>),
     twice |-> Email(TRUE, <<FileURL, FileURL>>, <<>>),
     noplaintext |-> Email(FALSE, <<>>, <<FileURL>>)]

ErrNoPlaintext == Error("ErrNoPlaintext")
ErrNoMatchesFound == Error("ErrNoMatchesFound")
ErrMultipleFound == Error("ErrMultipleFound")

\* Faulty variant: the pattern matches every https URL.
MatchesAnyURL(line) == line \in {FileURL, OtherFileURL, ForeignURL}

\* env.URLPattern, "https://mcusercontent.com/.+\.xlsx", on one line of text.
MatchesURLPattern(line) == line \in {FileURL, OtherFileURL}

\* The matches of the pattern in the plaintext body, in order of occurrence.
\* Exactly one match must be found: a URL that occurs twice is two matches.
FindMatches(text) == SelectSeq(text, LAMBDA line : MatchesURLPattern(line))

\* Faulty variant: of several matches the first is taken.
ExtractURLFirstMatch(email) ==
    IF ~email.plain THEN [err |-> ErrNoPlaintext, url |-> ""]
    ELSE LET found == FindMatches(email.text) IN
         IF Len(found) = 0 THEN [err |-> ErrNoMatchesFound, url |-> ""]
         ELSE [err |-> Nil, url |-> found[1]]

\* The URL extractor: the single match of the plaintext body, or the error.
ExtractURL(email) ==
    IF ~email.plain THEN [err |-> ErrNoPlaintext, url |-> ""]
    ELSE LET found == FindMatches(email.text) IN
         IF Len(found) = 0 THEN [err |-> ErrNoMatchesFound, url |-> ""]
         ELSE IF Len(found) > 1 THEN [err |-> ErrMultipleFound, url |-> ""]
         ELSE [err |-> Nil, url |-> found[1]]
ExtractURLOf == [k \in DOMAIN Fixtures |-> ExtractURL(Fixtures[k])]

\* MockSQS.SendMessage: keeps the message body and reports success.
SendMessage(q, body) == Append(q, body)

BRecs == 1..Len(bRecords)
BBatchesUpTo(n) == UNION {[1..k -> DOMAIN Fixtures] : k \in 1..n}

InitB ==
    /\ InitAOver({<<>>})
    /\ bRecords \in BBatchesUpTo(MaxRecords)
    /\ bpc = [i \in BRecs |-> "get"]
    /\ bUrl = [i \in BRecs |-> ""]
    /\ bErr = [i \in BRecs |-> Nil]
    /\ bErrs = <<>>
    /\ bResult = [state |-> "pending", Errors |-> <<>>]
    /\ queue = <<>>
    /\ bSent = [i \in BRecs |-> <<>>]

\* The task of record i fetches its email (MockS3.GetObject always returns the
\* content) and extracts the URL.
BExtract(i) ==
    /\ bpc[i] = "get"
    /\ \E x \in {ExtractURLOf[bRecords[i]]} :
          /\ bErr' = [bErr EXCEPT ![i] = x.err]
          /\ bUrl' = [bUrl EXCEPT ![i] = x.url]
          /\ bpc' = [bpc EXCEPT ![i] = IF x.err = Nil THEN "send" ELSE "ret"]
    /\ UNCHANGED <<bRecords, bErrs, bResult, queue, bSent>>
    /\ UNCHANGED varsA

\* The task of record i sends the URL it extracted to the queue.
BSend(i) ==
    /\ bpc[i] = "send"
    /\ queue' = SendMessage(queue, bUrl[i])
    /\ bSent' = [bSent EXCEPT ![i] = Append(@, bUrl[i])]
    /\ bpc' = [bpc EXCEPT ![i] = "ret"]
    /\ UNCHANGED <<bRecords, bUrl, bErr, bErrs, bResult>>
    /\ UNCHANGED varsA

\* The task of record i returns; its error, if any, is accumulated.
BReturn(i) ==
    /\ bpc[i] = "ret"
    /\ bpc' = [bpc EXCEPT ![i] = "done"]
    /\ bErrs' = IF bErr[i] # Nil THEN Append(bErrs, bErr[i]) ELSE bErrs
    /\ UNCHANGED <<bRecords, bUrl, bErr, bResult, queue, bSent>>
    /\ UNCHANGED varsA

\* handleS3Event returns the aggregate once every task has returned.
BFinish ==
    /\ bResult.state = "pending"
    /\ BRecs # {}
    /\ \A i \in BRecs : bpc[i] = "done"
    /\ bResult' = ErrorOrNil(bErrs)
    /\ UNCHANGED <<bRecords, bpc, bUrl, bErr, bErrs, queue, bSent>>
    /\ UNCHANGED varsA

NextB ==
    \/ \E i \in BRecs : BExtract(i)
    \/ \E i \in BRecs : BSend(i)
    \/ \E i \in BRecs : BReturn(i)
    \/ BFinish

SpecB == InitB /\ [][NextB]_vars

\* ---------------------------------------------------------------- claims
Returned == mainpc = "returned"
Finished(i) == pc[i] \in {"ret", "done"}
Failed == {i \in Recs : Finished(i) /\ err[i] # Nil}
Succeeded == {i \in Recs : Finished(i) /\ err[i] = Nil}
Written == {i \in Recs : putIn[i] # NoPut}
CountIn(es, e) == Cardinality({k \in 1..Len(es) : es[k] = e})

\* C1: handleS3EventWithConfig returns a non-nil aggregate error if and only if
\* at least one record's task returned an error, and nil exactly when every
\* record succeeded (the empty batch included).
C1_AggregateIffFailure ==
    Returned =>
        /\ result.state \in {"nil", "error"}
        /\ (result.state = "error") <=> (\E i \in Recs : err[i] # Nil)
        /\ (result.state = "nil") <=> (\A i \in Recs : err[i] = Nil)

C1_Witness ==
    /\ Returned
    /\ Len(records) = 2
    /\ result.state = "error"
    /\ Cardinality(Failed) = 1
    /\ Cardinality(Succeeded) = 1

\* C2: for a batch of N records of which F fail, under every interleaving the
\* aggregate holds exactly F errors, one per failing record (none lost, none
\* duplicated), and a PutObject took effect for exactly the N-F succeeding records.
C2_ExactlyFErrors ==
    /\ Len(errs) = Cardinality({i \in Recs : pc[i] = "done" /\ err[i] # Nil})
    /\ \A k \in 1..Len(errs) :
           CountIn(errs, errs[k]) =
               Cardinality({i \in Recs : pc[i] = "done" /\ err[i] = errs[k]})
    /\ Returned =>
           /\ Len(result.Errors) = Cardinality(Failed)
           /\ result.Errors = errs
           /\ Written = Succeeded
           /\ Cardinality(Written) = Len(records) - Cardinality(Failed)
           /\ \A i \in Recs : putCalls[i] <= 1

C2_Witness ==
    /\ Returned
    /\ records = <<"absent", "good">>
    /\ Len(result.Errors) = 1
    /\ Written = {2}

\* C3: a failure of one record never aborts its siblings: every record's task
\* is started and issues its GetObject, a task reports cancellation only when the
\* invocation was canceled, and every record holding a valid email whose own
\* storage calls did not fail completes its write, whatever the other records did.
ValidEmails == {"good", "inside", "sameday", "repeated", "latenight"}
C3_SiblingsNotAborted ==
    /\ \A i \in Recs : IsCanceled(err[i]) => ctxDone
    /\ Returned =>
           \A i \in Recs :
               /\ getCalls[i] = 1
               /\ (/\ ~ctxDone
                   /\ records[i] \in ValidEmails
                   /\ err[i].kind # "ServiceError")
                  => (i \in Written /\ err[i] = Nil
                      /\ putIn[i].Key \in DOMAIN dest)

C3_Witness ==
    /\ Returned
    /\ ~ctxDone
    /\ records = <<"stranger", "sameday">>
    /\ failedAt[1] = "validate"
    /\ 2 \in Written

\* The invocation's context was canceled before the first task was started.
PreCanceled == ctxDone /\ cancelAt = 1

\* C4 as stated: invoked with a context that is already canceled,
\* handleS3EventWithConfig returns a non-nil aggregate error in which every
\* wrapped per-record error identifies cancellation, and writes nothing.
C4_AsStated ==
    (Returned /\ PreCanceled) =>
        /\ result.state = "error"
        /\ \A k \in 1..Len(result.Errors) : IsCanceled(result.Errors[k])
        /\ Written = {}

\* C4 (amended): invoked with a context that is already canceled and a batch of
\* at least one record, handleS3EventWithConfig returns a non-nil aggregate error
\* holding one error per record, each identifying cancellation; for every batch
\* (the empty one returns nil) no PutObject is issued and nothing is written.
C4_PreCanceled ==
    (Returned /\ PreCanceled) =>
        /\ (Len(records) >= 1) => result.state = "error"
        /\ (Len(records) = 0) => result.state = "nil"
        /\ Len(result.Errors) = Len(records)
        /\ \A k \in 1..Len(result.Errors) : IsCanceled(result.Errors[k])
        /\ \A i \in Recs : putCalls[i] = 0
        /\ Written = {}
        /\ DOMAIN dest = {}

C4_Witness ==
    /\ Returned
    /\ PreCanceled
    /\ Len(records) = 2
    /\ result.state = "error"
    /\ \A i \in Recs : failedAt[i] = "get" /\ IsCanceled(err[i])

\* C5: every invocation terminates: under fair scheduling wg.Wait returns and
\* handleS3EventWithConfig returns, for every batch, canceled or not, and when it
\* has returned no record task is still running.
C5_Terminates ==
    /\ <>Returned
    /\ [](Returned => \A i \in Recs : pc[i] = "done")

C5_Witness ==
    /\ Returned
    /\ ctxDone
    /\ cancelAt = 2
    /\ Len(records) = 2
    /\ \A i \in Recs : pc[i] = "done"

\* C6 as stated: a record task in flight when the context is canceled, its
\* PutObject not yet completed, never reports success and reports cancellation
\* as its error, and no PutObject takes effect after the cancellation.
C6_AsStated ==
    /\ \A i \in inFlight : Finished(i) => (err[i] # Nil /\ IsCanceled(err[i]))
    /\ ctxDone => Written = putAtCancel

\* C6 (amended): a record task in flight when the context is canceled, its
\* PutObject not yet completed, never reports success; when the step it fails
\* at is a storage call (GetObject, the read of the body, PutObject) its error is
\* the cancellation, and otherwise it is the error of the parse, header or sender
\* step that failed first; no PutObject takes effect after the cancellation.
StorageSteps == {"get", "read", "put"}
PureSteps == {"parse", "header", "validate"}
C6_CancelObserved ==
    /\ \A i \in inFlight :
           Finished(i) =>
               /\ err[i] # Nil
               /\ failedAt[i] \in StorageSteps \cup PureSteps
               /\ (failedAt[i] \in StorageSteps) => IsCanceled(err[i])
               /\ (failedAt[i] \in PureSteps) => ~IsCanceled(err[i])
    /\ \A i \in Recs : (ctxDone /\ pc[i] = "idle") => i \notin Written
    /\ ctxDone => Written = putAtCancel

C6_Witness ==
    \E i \in inFlight :
        /\ Finished(i)
        /\ failedAt[i] = "put"
        /\ IsCanceled(err[i])
        /\ putCalls[i] = 1
        /\ i \notin Written

\* C7 as stated: on a successful record the bytes written to the destination key
\* are exactly the full byte sequence fetched from the source object.
C7_FullBytesWritten ==
    \A i \in Written :
        /\ StoredObject(putIn[i]).Body = SourceBucket[records[i]]
        /\ StoredObject(putIn[i]).Body # <<>>

\* Month and day numbers written out as plain decimals.
Plain == <<"1", "2", "3", "4", "5", "6", "7", "8", "9", "10", "11", "12", "13", "14", "15",
           "16", "17", "18", "19", "20", "21", "22", "23", "24", "25", "26", "27", "28",
           "29", "30", "31">>
YearText(y) == IF y = 2023 THEN "2023" ELSE IF y = 1987 THEN "1987" ELSE "10000"

\* processHeader on every calendar date, under two senders, hours and offsets.
KeyOfEveryDate ==
    \A y \in {1987, 2023, 10000} : \A m \in 1..12 : \A d \in 1..31 :
        \A a \in {FFIS, Stranger} : \A h \in {0, 23} : \A off \in {-5, 0} :
            LET hd == processHeader(<<Hdr("From", Addr("", a)),
                                      Hdr("Date", Date(y, m, d, h, off))>>)
            IN  /\ hd.err = Nil
                /\ hd.key = "sources/" \o YearText(y) \o "/" \o Plain[m] \o "/" \o Plain[d]
                              \o "/ffis/raw.eml"

\* C8: for every parsed Date with year Y, month M and day D the derived key is
\* exactly sources/Y/M/D/ffis/raw.eml, M and D plain decimals without zero
\* padding (2023-04-24 gives sources/2023/4/24/ffis/raw.eml), and it depends on
\* nothing but the date.
C8_KeyFromDate ==
    /\ KeyOfEveryDate
    /\ \A i \in Recs :
           (pc[i] = "put" \/ i \in Written) =>
               /\ records[i] \in {"good", "sameday"}
                      => s3ObjectKey[i] = "sources/2023/4/24/ffis/raw.eml"
               /\ records[i] = "inside" => s3ObjectKey[i] = "sources/2023/12/4/ffis/raw.eml"
               /\ records[i] \in ValidEmails
    /\ \A i \in Written :
           /\ putIn[i].Key = s3ObjectKey[i]
           /\ putIn[i].Bucket = SourceDataBucket
           /\ putIn[i].Key \in DOMAIN dest

C8_Witness ==
    /\ Returned
    /\ records = <<"good", "sameday">>
    /\ Written = {1, 2}
    /\ DOMAIN dest = {"sources/2023/4/24/ffis/raw.eml"}

\* s holds sub as a contiguous run, anywhere.
HasInfix(s, sub) ==
    \E pre \in 0..Len(s) : \E post \in 0..Len(s) :
        /\ pre + Len(sub) + post = Len(s)
        /\ \A k \in 1..Len(sub) : s[pre + k] = sub[k]

\* The task of record i parsed both headers of its message.
HeadersParsed(i) == pc[i] = "put" \/ (Finished(i) /\ failedAt[i] \in {"validate", "put", ""})

\* C9: sender validation is substring containment: a record whose parsed From
\* address contains the allow-listed string anywhere passes validation, and one
\* whose address does not contain it fails with a validation error and is never
\* written to the destination.
C9_SenderSubstring ==
    \A i \in Recs :
        HeadersParsed(i) =>
            /\ HasInfix(address[i], <<"f", "@", "o">>) => failedAt[i] # "validate"
            /\ ~HasInfix(address[i], <<"f", "@", "o">>) =>
                   /\ Finished(i)
                   /\ failedAt[i] = "validate"
                   /\ err[i] = [msg |-> "Origin email address does not match FFIS address",
                                kind |-> "Invalid email address"]
                   /\ putCalls[i] = 0
                   /\ i \notin Written

C9_Witness ==
    /\ Returned
    /\ records = <<"inside">>
    /\ address[1] = <<"x", "f", "@", "o", "z">>
    /\ address[1] # ValidFFISEmail
    /\ err[1] = Nil
    /\ Written = {1}

\* The lines of the plaintext body that are one of the two URLs of the
\* configured host, counted with repetition.
MatchCount(email) ==
    Cardinality({k \in 1..Len(email.text) :
                     email.text[k] \in {"https://mcusercontent.com/123456/files/file-01.xlsx",
                                        "https://mcusercontent.com/123456/files/file-02.xlsx"}})
TheMatch(email) ==
    email.text[CHOOSE k \in 1..Len(email.text) :
                   email.text[k] \in {"https://mcusercontent.com/123456/files/file-01.xlsx",
                                      "https://mcusercontent.com/123456/files/file-02.xlsx"}]

\* C10: in pipeline B a record whose plaintext body contains exactly one match
\* of the configured URL pattern succeeds, and exactly one message is sent to
\* the queue for it, whose body is that matched URL.
C10_SingleMatchForwarded ==
    \A i \in BRecs :
        LET email == Fixtures[bRecords[i]] IN
        (email.plain /\ MatchCount(email) = 1) =>
            /\ bErr[i] = Nil
            /\ bpc[i] \in {"ret", "done"} =>
                   /\ bSent[i] = <<TheMatch(email)>>
                   /\ CountIn(queue, TheMatch(email)) =
                          Cardinality({j \in BRecs : bSent[j] = <<TheMatch(email)>>})
            /\ bResult.state # "pending" =>
                   /\ bpc[i] = "done"
                   /\ bErr[i] \notin {bResult.Errors[k] : k \in 1..Len(bResult.Errors)}
                   /\ Len(queue) = Cardinality({j \in BRecs : bErr[j] = Nil})

C10_Witness ==
    /\ bRecords = <<"good">>
    /\ bResult.state = "nil"
    /\ queue = <<"https://mcusercontent.com/123456/files/file-01.xlsx">>

\* The task of record i of pipeline B has run its extraction.
BExtracted(i) == bpc[i] # "get"

\* C11: in pipeline B a record fails with ErrNoMatchesFound when the plaintext
\* body has no match of the pattern, with ErrMultipleFound when it has two or
\* more, and with ErrNoPlaintext when the message has no plaintext part; in each
\* of these cases no message is sent to the queue.
C11_ExtractionErrors ==
    /\ \A i \in BRecs :
           LET email == Fixtures[bRecords[i]] IN
           BExtracted(i) =>
               /\ ~email.plain => bErr[i] = [msg |-> "", kind |-> "ErrNoPlaintext"]
               /\ (email.plain /\ MatchCount(email) = 0)
                      => bErr[i] = [msg |-> "", kind |-> "ErrNoMatchesFound"]
               /\ (email.plain /\ MatchCount(email) >= 2)
                      => bErr[i] = [msg |-> "", kind |-> "ErrMultipleFound"]
               /\ (~email.plain \/ MatchCount(email) # 1) =>
                      /\ bpc[i] \in {"ret", "done"}
                      /\ bSent[i] = <<>>
                      /\ bpc[i] = "done" => CountIn(bErrs, bErr[i]) >= 1
    /\ Len(queue) = Cardinality({i \in BRecs : bSent[i] # <<>>})
    /\ \A i \in BRecs : bSent[i] # <<>> =>
           (Fixtures[bRecords[i]].plain /\ MatchCount(Fixtures[bRecords[i]]) = 1)

C11_Witness ==
    /\ bRecords = <<"twice", "noplaintext">>
    /\ bResult.state = "error"
    /\ Len(bResult.Errors) = 2
    /\ bErr[1].kind = "ErrMultipleFound"
    /\ bErr[2].kind = "ErrNoPlaintext"
    /\ queue = <<>>

\* The errors s3svc.GetObject can return.
RetrievalErrors ==
    {[msg |-> "", kind |-> "context.Canceled"], [msg |-> "", kind |-> "NoSuchKey"],
     [msg |-> "", kind |-> "ServiceError"]}

\* C12: for each record GetObject is called exactly once; when it fails, the
\* record's error in the aggregate is that same retrieval error unchanged, the
\* fetch is not retried, and the record proceeds to no later pipeline step.
C12_GetOnceVerbatim ==
    \A i \in Recs :
        /\ getCalls[i] <= 1
        /\ pc[i] \in {"read", "put", "ret", "done"} => getCalls[i] = 1
        /\ failedAt[i] = "get" =>
               /\ Finished(i)
               /\ err[i] \in RetrievalErrors
               /\ (records[i] = "absent" /\ ~ctxDone) => err[i] = [msg |-> "", kind |-> "NoSuchKey"]
               /\ resp[i] = NoReader /\ b[i] = <<>> /\ s3ObjectKey[i] = ""
               /\ putCalls[i] = 0 /\ putIn[i] = NoPut
               /\ pc[i] = "done" => CountIn(errs, err[i]) >= 1
               /\ Returned => CountIn(result.Errors, err[i]) >= 1

C12_Witness ==
    /\ records = <<"absent", "good">>
    /\ Returned
    /\ ~ctxDone
    /\ failedAt[1] = "get"
    /\ getCalls = <<1, 1>>
    /\ result.Errors = <<[msg |-> "", kind |-> "NoSuchKey"]>>

\* The records whose task has returned (the deferred function has run).
Done == {i \in Recs : pc[i] = "done"}

\* C13: exactly one "email.failed" metric event is emitted for each record whose
\* task returns an error, whatever pipeline step failed, and none for a record
\* that succeeds; over an invocation the number of failure metric events equals
\* the number of errors in the aggregate.
C13_OneFailedMetricPerFailure ==
    /\ metrics.failed = Cardinality({i \in Done : err[i] # Nil})
    /\ metrics.failed = Len(errs)
    /\ (\A i \in Done : err[i] = Nil) => metrics.failed = 0
    /\ Returned => metrics.failed = Len(result.Errors)

C13_Witness ==
    /\ records = <<"good", "stranger">>
    /\ Returned
    /\ err[1] = Nil
    /\ failedAt[2] = "validate"
    /\ metrics.failed = 1
    /\ Len(result.Errors) = 1

\* The successful PutObject of record i is a second run: another task of the
\* same record has written before and its object is what the store holds.
SecondRun(i) ==
    /\ putIn[i] = NoPut
    /\ putIn'[i] # NoPut
    /\ \E j \in Written : /\ records[j] = records[i]
                          /\ dest[putIn[j].Key] = StoredObject(putIn[j])

C14_SameKeyAndContent ==
    /\ \A i \in Written : \A j \in Written :
           records[i] = records[j] =>
               /\ putIn[i].Key = putIn[j].Key
               /\ StoredObject(putIn[i]) = StoredObject(putIn[j])
    /\ DOMAIN dest = {putIn[i].Key : i \in Written}
    /\ \A i \in Written :
           \E j \in Written : /\ putIn[j].Key = putIn[i].Key
                              /\ dest[putIn[i].Key] = StoredObject(putIn[j])

\* C14: processing the same successful record twice writes the same destination
\* key with the same content both times, and the destination store after the
\* second run equals the store after the first: an overwrite, not a second
\* object.
C14_Idempotent ==
    /\ []C14_SameKeyAndContent
    /\ [][\A i \in Recs : SecondRun(i) => dest' = dest]_vars

C14_Witness ==
    /\ records = <<"good", "good">>
    /\ Written = {1, 2}
    /\ putIn[1] = putIn[2]
    /\ DOMAIN dest = {"sources/2023/4/24/ffis/raw.eml"}

\* The errors that occur in a list of errors.
ErrorsOf(es) == {es[k] : k \in 1..Len(es)}

\* C15: the aggregate is deterministic in content: whatever order the record
\* tasks complete in, the failed records are those whose task returned an error
\* and the aggregate holds each error as many times as tasks returned it, so
\* both are functions of the batch and the per-record outcomes alone.
C15_ContentIndependentOfOrder ==
    /\ \A e \in ErrorsOf(errs) :
           CountIn(errs, e) = Cardinality({i \in Done : err[i] = e})
    /\ Returned =>
           /\ ErrorsOf(result.Errors) = {err[i] : i \in Recs} \ {Nil}
           /\ \A e \in ErrorsOf(result.Errors) :
                  CountIn(result.Errors, e) = Cardinality({i \in Recs : err[i] = e})
           /\ Len(result.Errors) = Cardinality({i \in Recs : err[i] # Nil})

C15_Witness ==
    /\ records = <<"absent", "stranger">>
    /\ Returned
    /\ err[1] # err[2]
    /\ result.Errors = <<err[2], err[1]>>

\* C16: in every reachable state the number of errors accumulated so far is at
\* most the number of record tasks that have finished, which is at most the
\* number of records of the batch; each record contributes at most one error.
C16_FailedAtMostTotal ==
    /\ Len(errs) <= Cardinality(Done)
    /\ Cardinality(Done) <= Len(records)
    /\ Len(errs) = Cardinality({i \in Done : err[i] # Nil})
    /\ Returned => Len(result.Errors) <= Len(records)

C16_Witness ==
    /\ records = <<"good", "absent">>
    /\ mainpc = "wait"
    /\ Done = {2}
    /\ Len(errs) = 1
    /\ pc[1] = "put"

\* C17 as stated: every per-record error in the aggregate identifies the failing
\* record by its source bucket and object key and carries a classification of
\* the failure kind; errors of records of different object keys are therefore
\* different errors, and each carries a message or a cause.
C17_ErrorsLocateRecord ==
    /\ \A i \in Failed : err[i].msg # "" \/ err[i].kind # "nil"
    /\ \A i \in Failed : \A j \in Failed :
           records[i] # records[j] => err[i] # err[j]

\* The objects of the source bucket by the step of processEmail they fail.
ParseFailKeys == {"nosep", "junk"}
AddressFailKeys == {"nofrom", "badfrom", "twofrom"}
DateFailKeys == {"nodate", "baddate"}

\* Header values of From and of Date, parseable and not.
FromValues ==
    {Addr("FFIS", <<"f", "@", "o">>), Addr("", <<"f", "@", "x", "o">>),
     AddrList(<<"f", "@", "o">>, <<"f", "@", "x", "o">>), Garbage, Missing}
DateValues == {Date(2023, 4, 24, 17, -5), Date(1987, 12, 31, 23, 2), Garbage, Missing}

\* processHeader returns an address and a key only when both headers parse.
ProcessHeaderNeedsBoth ==
    \A from \in FromValues : \A date \in DateValues :
        LET hd == processHeader(<<Hdr("Date", date), Hdr("From", from)>>) IN
        /\ hd.err = Nil <=> (from.kind = "addr" /\ date.kind = "date")
        /\ hd.err = Nil => (hd.address = from.addr /\ hd.key # "")
        /\ hd.err # Nil => (hd.address = <<>> /\ hd.key = "")
        /\ from.kind # "addr" => hd.err.kind = "mail.ParseAddress"
        /\ (from.kind = "addr" /\ date.kind # "date") => hd.err.kind = "mail.ParseDate"

\* C18: a record fails and writes nothing when its bytes are not well-formed
\* message syntax (parse error), when its From header is missing, malformed or
\* holds more than one address (address parse error), or when its Date header is
\* missing or malformed (date parse error); processHeader returns an address and
\* a key only when both headers parse.
C18_MalformedFailsUnwritten ==
    /\ ProcessHeaderNeedsBoth
    /\ \A i \in Recs :
           records[i] \in ParseFailKeys \cup AddressFailKeys \cup DateFailKeys =>
               /\ pc[i] # "put"
               /\ putCalls[i] = 0 /\ putIn[i] = NoPut /\ s3ObjectKey[i] = ""
               /\ Finished(i) =>
                      /\ err[i] # Nil
                      /\ failedAt[i] \in {"get", "read"}
                         \/ /\ records[i] \in ParseFailKeys
                            /\ failedAt[i] = "parse"
                            /\ err[i] = [msg |-> "Error parsing email data from S3",
                                         kind |-> "mail.ReadMessage"]
                         \/ /\ records[i] \in AddressFailKeys
                            /\ failedAt[i] = "header"
                            /\ err[i] = [msg |-> "Error extracting data from email header",
                                         kind |-> "mail.ParseAddress"]
                         \/ /\ records[i] \in DateFailKeys
                            /\ failedAt[i] = "header"
                            /\ err[i] = [msg |-> "Error extracting data from email header",
                                         kind |-> "mail.ParseDate"]
    /\ \A i \in Written : records[i] \in ValidEmails

C18_Witness ==
    /\ records = <<"nodate">>
    /\ Returned
    /\ failedAt[1] = "header"
    /\ err[1].kind = "mail.ParseDate"
    /\ getCalls[1] = 1
    /\ putCalls[1] = 0
    /\ DOMAIN dest = {}

\* The call of TestUploadS3Object: bucket, key and a reader over "hello!".
TestUpload == UploadS3Object("test-bucket", "test/key", NewReader(<<"hello!">>))

\* C19: UploadS3Object issues exactly one PutObject whose bucket, key and body
\* are the given bucket, key and body and whose server-side encryption is
\* AES256; it returns nil when PutObject succeeds and PutObject's error
\* unchanged when it fails.
C19_OnePutAES256 ==
    /\ TestUpload.Bucket = "test-bucket"
    /\ TestUpload.Key = "test/key"
    /\ TestUpload.Body = [data |-> <<"hello!">>, pos |-> 0]
    /\ TestUpload.ServerSideEncryption = "AES256"
    /\ \A i \in Recs :
           /\ putCalls[i] <= 1
           /\ putCalls[i] = 1 <=> (i \in Written \/ failedAt[i] = "put")
           /\ i \in Written =>
                  /\ putIn[i].Bucket = "test-source-data-bucket"
                  /\ putIn[i].Key = s3ObjectKey[i]
                  /\ putIn[i].Body = resp[i]
                  /\ putIn[i].ServerSideEncryption = "AES256"
                  /\ err[i] = Nil
                  /\ dest[putIn[i].Key].ServerSideEncryption = "AES256"
           /\ failedAt[i] = "put" =>
                  /\ i \notin Written
                  /\ err[i].kind \in {"ServiceError", "context.Canceled"}
                  /\ err[i].kind = "context.Canceled" => ctxDone

C19_Witness ==
    /\ records = <<"good", "sameday">>
    /\ Returned
    /\ Written = {1}
    /\ failedAt[2] = "put"
    /\ err[2].kind = "ServiceError"
    /\ putCalls = <<1, 1>>
    /\ putIn[1].ServerSideEncryption = "AES256"

\* C20: when the destination PutObject fails for an otherwise valid email,
\* processEmail returns an error identifying the upload failure ("Error
\* uploading S3 object to Grants source data bucket"), does not report the
\* email as moved, and neither calls GetObject nor retries the upload.
C20_UploadFailureReported ==
    /\ \A i \in Recs :
           failedAt[i] = "put" =>
               /\ records[i] \in ValidEmails
               /\ Finished(i)
               /\ err[i] # Nil
               /\ err[i].msg = "Error uploading S3 object to Grants source data bucket"
               /\ i \notin Written
               /\ putCalls[i] = 1
               /\ getCalls[i] = 1
               /\ pc[i] = "done" => CountIn(errs, err[i]) >= 1
    /\ metrics.moved = Cardinality(Written)
    /\ \A i \in Recs : (Finished(i) /\ putCalls[i] = 1 /\ i \notin Written) => failedAt[i] = "put"

C20_Witness ==
    /\ records = <<"good">>
    /\ ~ctxDone
    /\ Returned
    /\ failedAt[1] = "put"
    /\ err[1] = [msg |-> "Error uploading S3 object to Grants source data bucket",
                 kind |-> "ServiceError"]
    /\ metrics = [failed |-> 1, moved |-> 0]
    /\ getCalls[1] = 1
    /\ putCalls[1] = 1

\* The position of a record task in its sequence of steps.
StepRank(p) ==
    CASE p = "idle" -> 0 [] p = "get" -> 1 [] p = "read" -> 2 [] p = "put" -> 3
      [] p = "ret" -> 4 [] p = "done" -> 5

\* The steps of processEmail in their order; a task that failed at a step
\* passed the steps before it.
FailRank(at) ==
    CASE at = "get" -> 1 [] at = "read" -> 2 [] at = "parse" -> 3 [] at = "header" -> 4
      [] at = "validate" -> 5 [] at = "put" -> 6 [] at = "" -> 7

\* Record i has reached the upload step or gone through it.
AtOrPastPut(i) == pc[i] = "put" \/ putCalls[i] >= 1

C21_PutOnlyAfterAllSteps ==
    \A i \in Recs :
        /\ putCalls[i] <= 1 /\ getCalls[i] <= 1
        /\ AtOrPastPut(i) =>
               /\ getCalls[i] = 1
               /\ b[i] = SourceBucket[records[i]]
               /\ ReadMessage(b[i]).err = Nil
               /\ processHeader(ReadMessage(b[i]).Header).err = Nil
               /\ Contains(address[i], <<"f", "@", "o">>)
               /\ address[i] = processHeader(ReadMessage(b[i]).Header).address
               /\ s3ObjectKey[i] = processHeader(ReadMessage(b[i]).Header).key
               /\ failedAt[i] \in {"", "put"}
        /\ (Finished(i) /\ failedAt[i] # "") =>
               /\ err[i] # Nil
               /\ FailRank(failedAt[i]) <= 1 => (b[i] = <<>> /\ resp[i] = NoReader)
               /\ FailRank(failedAt[i]) <= 5 => (putCalls[i] = 0 /\ putIn[i] = NoPut)
               /\ FailRank(failedAt[i]) >= 2 => getCalls[i] = 1
               /\ FailRank(failedAt[i]) >= 4 => ReadMessage(b[i]).err = Nil
               /\ FailRank(failedAt[i]) >= 5 =>
                      processHeader(ReadMessage(b[i]).Header).err = Nil
               /\ FailRank(failedAt[i]) = 3 => ReadMessage(b[i]).err # Nil
               /\ FailRank(failedAt[i]) = 4 =>
                      processHeader(ReadMessage(b[i]).Header).err # Nil
               /\ FailRank(failedAt[i]) = 5 => ~Contains(address[i], <<"f", "@", "o">>)

\* C21: within each record task the steps occur in the fixed order fetch, parse
\* message, parse headers, validate sender, forward, and the task stops at the
\* first failing step: PutObject is issued at most once per record, and only
\* after GetObject succeeded, the message and both headers parsed and the sender
\* passed validation.
C21_StepOrder ==
    /\ []C21_PutOnlyAfterAllSteps
    /\ [][\A i \in Recs : StepRank(pc'[i]) >= StepRank(pc[i])]_vars

C21_Witness ==
    /\ records = <<"stranger", "good">>
    /\ Returned
    /\ failedAt[1] = "validate"
    /\ putCalls = <<0, 1>>
    /\ getCalls = <<1, 1>>
    /\ Written = {2}

\* The bytes of the source object a record names, none when there is no object.
SourceOf(k) == IF k \in DOMAIN SourceBucket THEN SourceBucket[k] ELSE <<>>

C23_HeadersBeforeValidation ==
    \A i \in Recs :
        /\ (records[i] = "strangerbaddate" /\ Finished(i) /\ failedAt[i] \notin {"get", "read"}) =>
               /\ failedAt[i] = "header"
               /\ err[i] = [msg |-> "Error extracting data from email header",
                            kind |-> "mail.ParseDate"]
               /\ putCalls[i] = 0
        /\ failedAt[i] = "validate" =>
               /\ err[i] = [msg |-> "Origin email address does not match FFIS address",
                            kind |-> "Invalid email address"]
               /\ ParseAddress(HeaderGet(ReadMessage(b[i]).Header, "From")).err = Nil
               /\ ParseDate(HeaderGet(ReadMessage(b[i]).Header, "Date")).err = Nil
               /\ ~Contains(address[i], <<"f", "@", "o">>)

C23_Witness ==
    /\ records = <<"strangerbaddate">>
    /\ Returned
    /\ ~ctxDone
    /\ failedAt[1] = "header"
    /\ err[1].kind = "mail.ParseDate"
    /\ ~Contains(ParseAddress(HeaderGet(ReadMessage(b[1]).Header, "From")).Address,
                 <<"f", "@", "o">>)
    /\ result.Errors = <<err[1]>>

\* C24: "email.moved" is emitted exactly once for each record whose PutObject
\* succeeded and never for a record that failed, so after an invocation of N
\* records the count of "email.moved" events plus the count of "email.failed"
\* events equals N.
C24_MovedPlusFailedIsTotal ==
    /\ metrics.moved = Cardinality(Written)
    /\ \A i \in Written : err[i] = Nil /\ failedAt[i] = ""
    /\ \A i \in Recs : (Finished(i) /\ err[i] = Nil) => i \in Written
    /\ metrics.moved + metrics.failed <= Len(records)
    /\ Returned => metrics.moved + metrics.failed = Len(records)

C24_Witness ==
    /\ records = <<"sameday", "absent">>
    /\ Returned
    /\ metrics = [failed |-> 1, moved |-> 1]
    /\ Written = {1}

\* Spellings of the two header names.
FromNames == {"From", "FROM", "from"}
DateNames == {"Date", "DATE", "date"}

\* processHeader on a header that spells and repeats the two names in every way:
\* the address and the key are those of the first From and the first Date.
FirstOccurrenceWins ==
    \A n1 \in FromNames : \A n2 \in FromNames : \A d1 \in DateNames : \A d2 \in DateNames :
        LET hd == processHeader(<<Hdr(d1, Date(2023, 4, 24, 17, -5)),
                                  Hdr(n1, Addr("", <<"f", "@", "o">>)),
                                  Hdr(n2, Addr("", <<"f", "@", "x", "o">>)),
                                  Hdr(d2, Date(1987, 12, 31, 9, 0))>>)
        IN  /\ hd.err = Nil
            /\ hd.address = <<"f", "@", "o">>
            /\ hd.key = "sources/2023/4/24/ffis/raw.eml"

\* C25: header lookup is case-insensitive and first-match: where the From or
\* Date header name appears in any letter case or more than once, processHeader
\* uses the value of the first occurrence of that header.
C25_FirstMatchAnyCase ==
    /\ FirstOccurrenceWins
    /\ \A i \in Recs :
           /\ records[i] = "repeated" =>
                  /\ AtOrPastPut(i) =>
                         /\ address[i] = <<"f", "@", "o">>
                         /\ s3ObjectKey[i] = "sources/2023/4/24/ffis/raw.eml"
                  /\ Finished(i) => failedAt[i] \in {"get", "read", "put", ""}
           /\ records[i] = "strangerfirst" =>
                  /\ ~AtOrPastPut(i)
                  /\ Finished(i) =>
                         \/ failedAt[i] \in {"get", "read"}
                         \/ /\ failedAt[i] = "validate"
                            /\ address[i] = <<"f", "@", "x", "o">>

C25_Witness ==
    /\ records = <<"repeated">>
    /\ Returned
    /\ Written = {1}
    /\ address[1] = <<"f", "@", "o">>
    /\ DOMAIN dest = {"sources/2023/4/24/ffis/raw.eml"}

\* Zone offsets of a Date header, in hours.
Offsets == -12..14

\* processHeader on every hour of the day in every zone: the day of the key is
\* the day the header names.
DayAsWritten ==
    \A d \in {1, 24, 30} : \A h \in 0..23 : \A off \in Offsets :
        LET hd == processHeader(<<Hdr("From", Addr("", <<"f", "@", "o">>)),
                                  Hdr("Date", Date(2023, 4, d, h, off))>>)
        IN  /\ hd.err = Nil
            /\ hd.key = "sources/2023/4/" \o Plain[d] \o "/ffis/raw.eml"

\* C26: the year, month and day of the destination key are those of the Date
\* header as written in its own UTC offset, not converted to UTC or to the
\* host's zone: a Date of 24 Apr 2023, 23 h, -0500 gives
\* sources/2023/4/24/ffis/raw.eml, not day 25.
C26_DateInOwnOffset ==
    /\ DayAsWritten
    /\ \A i \in Recs :
           records[i] = "latenight" =>
               /\ AtOrPastPut(i) => s3ObjectKey[i] = "sources/2023/4/24/ffis/raw.eml"
               /\ i \in Written => DOMAIN dest = {"sources/2023/4/24/ffis/raw.eml"}

C26_Witness ==
    /\ records = <<"latenight">>
    /\ Returned
    /\ Written = {1}
    /\ putIn[1].Key = "sources/2023/4/24/ffis/raw.eml"

\* C27 as stated: every response body obtained from a successful GetObject is
\* closed before handleS3EventWithConfig returns, on the success path and on
\* every failure path of the record task.
C27_BodiesClosed == Returned => bodyOpen = {}
====
